---- MODULE Spec2Model ----
(***************************************************************************)
(* A model of crm_monitor.py (class PingMonitor): one probe thread per     *)
(* target (ping_target_continuously), the Tk main thread that builds the   *)
(* object and then runs process_results every 100 ms, the notification     *)
(* thread (connection_notification_loop) and the tray callback             *)
(* stop_monitoring.  A thread's step is one read or write of a shared      *)
(* attribute, so that the interleavings CPython allows between two         *)
(* attribute accesses are behaviours of the model.                         *)
(*                                                                         *)
(* Delays are fixed-point numbers in tenths of a millisecond: the regular  *)
(* expression of parse_ping_delay accepts one optional fractional part,    *)
(* and the ping outputs the model draws carry at most one fractional       *)
(* digit.  time.time() is the variable now, in seconds.                    *)
(***************************************************************************)
EXTENDS Integers, Sequences, FiniteSets, TLC

VARIABLES
    mpc,              \* main thread: where it is in __init__ / __main__
    running,          \* self.running: "unset" until line 113
    results,          \* self.results: target name -> deque(maxlen=5)
    result_queue,     \* self.result_queue (queue.Queue, unbounded)
    current_status,   \* self.current_status: "unset" until line 345 first runs
    condition,        \* per target, the condition process_results last displayed
    avg_delay,        \* per target, the avg_delay process_results last logged
    pre_status,       \* self.pre_status
    last_repeat_time, \* self.last_repeat_time
    npc,              \* notification thread: its position in the loop
    ppc,              \* probe threads: position of each
    bound,            \* probe threads: whether the local `result` is bound
    now,              \* time.time()
    attempts,         \* history: probe attempts started, per target
    puts,             \* history: outcomes put on the queue, per target
    probe_log,        \* history: per target, the last reply and what was put for it
    pushed,           \* history: per target, every outcome appended to its window
    iter,             \* history: what the current notification poll compared and emitted
    polled,           \* history: the status the previous poll compared
    changes,          \* history: changes between consecutive polled statuses
    transitions       \* history: transition events emitted after the first poll

vars == <<mpc, running, results, result_queue, current_status, condition, avg_delay,
          pre_status, last_repeat_time, npc, ppc, bound, now, attempts, puts,
          probe_log, pushed, iter, polled, changes, transitions>>

aggVars == <<results, result_queue, current_status, condition, avg_delay, pushed>>
notifVars == <<pre_status, last_repeat_time, npc, iter, polled, changes, transitions>>
probeVars == <<ppc, bound, attempts, puts, probe_log>>

----------------------------------------------------------------------------
(* Bounds of the model. *)

\* Probe attempts started by all probe threads together.
MaxProbes == 2
\* The last value of the clock.
MaxTime == 20
\* Outcomes waiting on the queue (the queue itself is unbounded).
MaxQueue == 2

----------------------------------------------------------------------------
(* Program constants. *)

repeat_interval == 10
maxlen == 5

Targets == {"Internet", "WireGuard", "VoIP"}

None == -1

\* A delay of n milliseconds, in the model's tenths.
Ms(n) == 10 * n

----------------------------------------------------------------------------
(* parse_ping_delay: the output of ping is a sequence of tokens, a token    *)
(* being the literal time=, the literal time<1ms, a dot, a run of digits    *)
(* (with its value) or any other text.                                      *)

Lit(s) == [k |-> s, v |-> 0]
Num(n) == [k |-> "num", v |-> n]

\* re.search: the leftmost position where an alternative matches, the first
\* alternative (time=<digits>[.<digits>]) before the second (time<1ms).
RECURSIVE search(_, _)
search(output, i) ==
    IF i > Len(output) THEN None
    ELSE IF output[i].k = "time=" /\ i < Len(output) /\ output[i + 1].k = "num"
    THEN IF i + 3 <= Len(output) /\ output[i + 2].k = "." /\ output[i + 3].k = "num"
         THEN 10 * output[i + 1].v + output[i + 3].v
         ELSE 10 * output[i + 1].v
    ELSE IF output[i].k = "time<1ms" THEN None
    ELSE search(output, i + 1)

parse_ping_delay(output) == search(output, 1)

\* What ping printed, for the replies the model draws.
PingOutputs ==
    { <<Lit("text"), Lit("time="), Num(12), Lit("."), Num(3), Lit("text")>>,
      <<Lit("text"), Lit("time="), Num(1800), Lit("text")>>,
      <<Lit("text"), Lit("time<1ms"), Lit("text")>>,
      <<Lit("text"), Lit("time="), Lit("text")>>,
      <<Lit("text")>> }

\* How subprocess.run ends: the process exits (with a code and its output),
\* the 2 s timeout expires, or run itself raises.
Replies ==
    { [how |-> "exit", rc |-> 0, out |-> o] : o \in PingOutputs }
    \cup { [how |-> "exit", rc |-> 1, out |-> <<>>],
           [how |-> "timeout", rc |-> 0, out |-> <<>>],
           [how |-> "fault", rc |-> 0, out |-> <<>>] }

Outcome(name, status, delay) ==
    [name |-> name, status |-> status, delay |-> delay, timestamp |-> now]

----------------------------------------------------------------------------
(* self.result_queue, a queue.Queue() without maxsize. *)

\* A queue that hands out its newest item first.
get_newest(queue) == <<queue[Len(queue)], SubSeq(queue, 1, Len(queue) - 1)>>

\* get_nowait on a queue that is not empty: the oldest item, and the rest.
get_nowait(queue) == <<Head(queue), Tail(queue)>>

\* A queue of one slot that discards what is put while the slot is taken.
put_or_discard(queue, item) == IF queue = <<>> THEN <<item>> ELSE queue

\* put: never blocks and never discards, the queue has no maxsize.
put(queue, item) == Append(queue, item)

----------------------------------------------------------------------------
(* The window and its classification (process_results). *)

\* A deque that drops the new outcome once it is full.
append_keeps_oldest(window, result) ==
    IF Len(window) < maxlen THEN Append(window, result) ELSE window

\* A deque that holds one outcome more before it evicts the oldest.
append_one_more(window, result) ==
    IF Len(window) < maxlen + 1 THEN Append(window, result)
    ELSE Append(Tail(window), result)

\* deque(maxlen=5).append
append(window, result) ==
    IF Len(window) < maxlen THEN Append(window, result)
    ELSE Append(Tail(window), result)

IsFailure(r) == r.status \in {"timeout", "error", "failed"}

failed_pings(recent_results) ==
    Cardinality({i \in DOMAIN recent_results : IsFailure(recent_results[i])})

HasDelay(r) == r.delay # None

delays(recent_results) == SelectSeq(recent_results, HasDelay)

RECURSIVE sum(_)
sum(ds) == IF ds = <<>> THEN 0 ELSE Head(ds).delay + sum(Tail(ds))

\* avg_delay as the fraction <<sum(delays), len(delays)>>; <<0, 0>> is None.
NoAvg == <<0, 0>>

AvgDelay(recent_results) ==
    IF failed_pings(recent_results) >= 2 THEN NoAvg
    ELSE IF delays(recent_results) = <<>> THEN NoAvg
    ELSE <<sum(delays(recent_results)), Len(delays(recent_results))>>

\* A classification that looks at the delays before the failures.
Condition_latency_first(recent_results) ==
    IF delays(recent_results) = <<>>
    THEN IF failed_pings(recent_results) >= 2 THEN "Disconnected" ELSE "No valid data"
    ELSE LET s == sum(delays(recent_results))
             n == Len(delays(recent_results))
         IN  IF s < Ms(200) * n THEN "Fast"
             ELSE IF Ms(200) * n <= s /\ s <= Ms(1500) * n THEN "Slow"
             ELSE "Dead"

\* A classification whose Fast includes a mean of exactly 200 ms.
Condition_fast_inclusive(recent_results) ==
    IF failed_pings(recent_results) >= 2 THEN "Disconnected"
    ELSE IF delays(recent_results) = <<>> THEN "No valid data"
    ELSE LET s == sum(delays(recent_results))
             n == Len(delays(recent_results))
         IN  IF s <= Ms(200) * n THEN "Fast"
             ELSE IF s <= Ms(1500) * n THEN "Slow"
             ELSE "Dead"

\* The condition of lines 295-323; avg < 200 is sum < 200 * len.
Condition(recent_results) ==
    IF failed_pings(recent_results) >= 2 THEN "Disconnected"
    ELSE IF delays(recent_results) = <<>> THEN "No valid data"
    ELSE LET s == sum(delays(recent_results))
             n == Len(delays(recent_results))
         IN  IF s < Ms(200) * n THEN "Fast"
             ELSE IF Ms(200) * n <= s /\ s <= Ms(1500) * n THEN "Slow"
             ELSE "Dead"

\* An overall status that is red only when every target's window holds 2 or
\* more failures.
OverallStatus_all_targets(res) ==
    IF \A target_name \in DOMAIN res : failed_pings(res[target_name]) >= 2
    THEN "Disconnected"
    ELSE "Connected"

\* Lines 337-345: red when some target's window holds 2 or more failures.
OverallStatus(res) ==
    IF \E target_name \in DOMAIN res : failed_pings(res[target_name]) >= 2
    THEN "Disconnected"
    ELSE "Connected"

----------------------------------------------------------------------------
(* The state when __init__ has started the notification thread (line 100). *)

NoIter == [pre |-> "None", cur |-> "None", due |-> FALSE, ev |-> <<>>]
NoLog == [reply |-> [how |-> "none", rc |-> 0, out |-> <<>>], sent |-> <<>>]

Init ==
    /\ mpc = "init"
    /\ running = "unset"
    /\ results = [t \in Targets |-> <<>>]
    /\ result_queue = <<>>
    /\ current_status = "unset"
    /\ condition = [t \in Targets |-> "unset"]
    /\ avg_delay = [t \in Targets |-> NoAvg]
    /\ pre_status = "None"
    /\ last_repeat_time = 0
    /\ npc = "while"
    /\ ppc = [t \in Targets |-> "idle"]
    /\ bound = [t \in Targets |-> FALSE]
    /\ now = repeat_interval
    /\ attempts = [t \in Targets |-> 0]
    /\ puts = [t \in Targets |-> 0]
    /\ probe_log = [t \in Targets |-> NoLog]
    /\ pushed = [t \in Targets |-> <<>>]
    /\ iter = NoIter
    /\ polled = "None"
    /\ changes = 0
    /\ transitions = 0

----------------------------------------------------------------------------
(* The main thread. *)

\* __init__, lines 106-113.
init_attrs ==
    /\ mpc = "init"
    /\ results' = [t \in Targets |-> <<>>]
    /\ result_queue' = <<>>
    /\ running' = "True"
    /\ mpc' = "ping_and_store"
    /\ UNCHANGED <<current_status, condition, avg_delay, pushed, now>>
    /\ UNCHANGED notifVars
    /\ UNCHANGED probeVars

\* __init__ line 120: one probe thread per target.
ping_and_store ==
    /\ mpc = "ping_and_store"
    /\ ppc' = [t \in Targets |-> "while"]
    /\ mpc' = "start_monitoring"
    /\ UNCHANGED <<running, now, bound, attempts, puts, probe_log>>
    /\ UNCHANGED aggVars
    /\ UNCHANGED notifVars

\* __main__ lines 409-411: the first process_results and the Tk main loop.
start_monitoring ==
    /\ mpc = "start_monitoring"
    /\ mpc' = "mainloop"
    /\ UNCHANGED <<running, now>>
    /\ UNCHANGED aggVars
    /\ UNCHANGED notifVars
    /\ UNCHANGED probeVars

\* Lines 363-364: process_results runs again in 100 ms while self.running.
Rescheduled == IF running = "True" THEN "mainloop" ELSE "done"

\* One run of process_results: get_nowait, append, classify, overall status,
\* and the rescheduling of line 363.  self.results[name] of line 290 raises
\* KeyError for a name that is no key of self.results; only queue.Empty is
\* caught, so the call ends there, before line 363: Tk reports the exception
\* and the main loop goes on without process_results ("stalled").
process_results ==
    /\ mpc = "mainloop"
    /\ IF result_queue = <<>>
       THEN /\ UNCHANGED aggVars
            /\ mpc' = Rescheduled
       ELSE LET got == get_nowait(result_queue)
                result == got[1]
                name == result.name
            IN  IF name \notin DOMAIN results
                THEN /\ result_queue' = got[2]
                     /\ mpc' = "stalled"
                     /\ UNCHANGED <<results, pushed, condition, avg_delay,
                                    current_status>>
                ELSE LET recent_results == append(results[name], result)
                         updated == [results EXCEPT ![name] = recent_results]
                     IN  /\ result_queue' = got[2]
                         /\ results' = updated
                         /\ pushed' = [pushed EXCEPT ![name] = Append(@, result)]
                         /\ condition' =
                                [condition EXCEPT ![name] = Condition(recent_results)]
                         /\ avg_delay' =
                                [avg_delay EXCEPT ![name] = AvgDelay(recent_results)]
                         /\ current_status' = OverallStatus(updated)
                         /\ mpc' = Rescheduled
    /\ UNCHANGED <<running, now>>
    /\ UNCHANGED notifVars
    /\ UNCHANGED probeVars

\* The tray's Exit, run by the tray's thread: line 398, running = False.
stop_monitoring ==
    /\ mpc \in {"mainloop", "stalled"}
    /\ running = "True"
    /\ running' = "False"
    /\ UNCHANGED <<mpc, now>>
    /\ UNCHANGED aggVars
    /\ UNCHANGED notifVars
    /\ UNCHANGED probeVars

\* Lines 399-401 of stop_monitoring: root.quit() ends the Tk main loop.
root_quit ==
    /\ mpc \in {"mainloop", "stalled", "done"}
    /\ running = "False"
    /\ mpc' = "exited"
    /\ UNCHANGED <<running, now>>
    /\ UNCHANGED aggVars
    /\ UNCHANGED notifVars
    /\ UNCHANGED probeVars

\* Every thread but the main one is a daemon thread (lines 100, 167, 192):
\* when the main loop has returned and __main__ ends, the process ends and
\* no thread takes another step.
ProcessAlive == mpc # "exited"

----------------------------------------------------------------------------
(* A probe thread, ping_target_continuously(ip, name). *)

Total(f) == f["Internet"] + f["WireGuard"] + f["VoIP"]

\* Probe loops that take turns: a probe starts only when no other target's
\* probe is in flight.
probe_while_in_turn(name) ==
    /\ ProcessAlive
    /\ ppc[name] = "while"
    /\ \A other \in Targets \ {name} : ppc[other] # "run"
    /\ IF running = "True"
       THEN /\ Total(attempts) < MaxProbes
            /\ ppc' = [ppc EXCEPT ![name] = "run"]
            /\ attempts' = [attempts EXCEPT ![name] = @ + 1]
       ELSE /\ ppc' = [ppc EXCEPT ![name] = "done"]
            /\ UNCHANGED attempts
    /\ UNCHANGED <<mpc, running, now, bound, puts, probe_log>>
    /\ UNCHANGED aggVars
    /\ UNCHANGED notifVars

\* Line 199, `while self.running`, and the start of subprocess.run.
probe_while(name) ==
    /\ ProcessAlive
    /\ ppc[name] = "while"
    /\ IF running = "True"
       THEN /\ Total(attempts) < MaxProbes
            /\ ppc' = [ppc EXCEPT ![name] = "run"]
            /\ attempts' = [attempts EXCEPT ![name] = @ + 1]
       ELSE /\ ppc' = [ppc EXCEPT ![name] = "done"]
            /\ UNCHANGED attempts
    /\ UNCHANGED <<mpc, running, now, bound, puts, probe_log>>
    /\ UNCHANGED aggVars
    /\ UNCHANGED notifVars

\* What the thread does with the way subprocess.run ended: the outcome it
\* puts, or nothing when the handler itself raises.  In both handlers the
\* first statement reads result.stderr, and `result` is bound only once a
\* subprocess.run of this thread has returned.
Handled(name, reply) ==
    IF reply.how = "exit"
    THEN IF reply.rc = 0
         THEN <<Outcome(name, "success", parse_ping_delay(reply.out))>>
         ELSE <<Outcome(name, "failed", None)>>
    ELSE IF ~bound[name] THEN <<>>
    ELSE IF reply.how = "timeout"
    THEN <<Outcome(name, "timeout", None)>>
    ELSE <<Outcome(name, "error", None)>>

\* Lines 204-262: subprocess.run ends, the outcome is put, the thread sleeps.
probe_run(name, reply) ==
    /\ ProcessAlive
    /\ ppc[name] = "run"
    /\ Len(result_queue) < MaxQueue
    /\ LET handled == Handled(name, reply)
       IN  /\ result_queue' = IF handled = <<>> THEN result_queue
                               ELSE put(result_queue, handled[1])
           /\ puts' = [puts EXCEPT ![name] = @ + Len(handled)]
           /\ probe_log' = [probe_log EXCEPT ![name] = [reply |-> reply, sent |-> handled]]
           /\ ppc' = [ppc EXCEPT ![name] = IF handled = <<>> THEN "dead" ELSE "while"]
    /\ bound' = [bound EXCEPT ![name] = @ \/ reply.how = "exit"]
    /\ UNCHANGED <<mpc, running, now, attempts>>
    /\ UNCHANGED <<results, current_status, condition, avg_delay, pushed>>
    /\ UNCHANGED notifVars

----------------------------------------------------------------------------
(* The notification thread, connection_notification_loop. *)

Emit(type, status) == [iter EXCEPT !.ev = Append(@, <<type, status>>)]

\* Line 367: `while self.running`; the attribute may not exist yet.
notify_while ==
    /\ ProcessAlive
    /\ npc = "while"
    /\ npc' = CASE running = "unset" -> "dead"
              [] running = "True" -> "compare"
              [] OTHER -> "done"
    /\ UNCHANGED <<pre_status, last_repeat_time, iter, polled, changes, transitions>>
    /\ UNCHANGED <<mpc, running, now>>
    /\ UNCHANGED aggVars
    /\ UNCHANGED probeVars

\* A comparison that takes the first status as the baseline, silently.
StatusChangedAfterBaseline(current, previous) ==
    previous # "None" /\ current # previous

\* The test of line 368.
StatusChanged(current, previous) == current # previous

\* Line 368: `if self.current_status != self.pre_status`.
notify_compare ==
    /\ ProcessAlive
    /\ npc = "compare"
    /\ IF current_status = "unset"
       THEN /\ npc' = "dead"
            /\ UNCHANGED <<iter, polled, changes>>
       ELSE /\ npc' = IF StatusChanged(current_status, pre_status) THEN "trigger" ELSE "elif"
            /\ iter' = [pre |-> pre_status, cur |-> current_status,
                        due |-> now - last_repeat_time >= repeat_interval, ev |-> <<>>]
            /\ polled' = current_status
            /\ changes' = IF polled # "None" /\ polled # current_status
                          THEN changes + 1 ELSE changes
    /\ UNCHANGED <<pre_status, last_repeat_time, transitions>>
    /\ UNCHANGED <<mpc, running, now>>
    /\ UNCHANGED aggVars
    /\ UNCHANGED probeVars

\* Line 369: on_status_change_trigger(self.current_status).
notify_trigger ==
    /\ ProcessAlive
    /\ npc = "trigger"
    /\ iter' = Emit("Transition", current_status)
    /\ transitions' = IF iter.pre # "None" THEN transitions + 1 ELSE transitions
    /\ npc' = "set_pre"
    /\ UNCHANGED <<pre_status, last_repeat_time, polled, changes>>
    /\ UNCHANGED <<mpc, running, now>>
    /\ UNCHANGED aggVars
    /\ UNCHANGED probeVars

\* A notification loop that, having announced a status, also writes the
\* overall status back.
notify_set_pre_and_status ==
    /\ ProcessAlive
    /\ npc = "set_pre"
    /\ pre_status' = current_status
    /\ current_status' = "Connected"
    /\ last_repeat_time' = now
    /\ npc' = "restored"
    /\ UNCHANGED <<iter, polled, changes, transitions>>
    /\ UNCHANGED <<mpc, running, now>>
    /\ UNCHANGED <<results, result_queue, condition, avg_delay, pushed>>
    /\ UNCHANGED probeVars

\* Lines 370-371: pre_status = self.current_status; last_repeat_time = time.time().
notify_set_pre ==
    /\ ProcessAlive
    /\ npc = "set_pre"
    /\ pre_status' = current_status
    /\ last_repeat_time' = now
    /\ npc' = "restored"
    /\ UNCHANGED <<iter, polled, changes, transitions>>
    /\ UNCHANGED <<mpc, running, now>>
    /\ UNCHANGED aggVars
    /\ UNCHANGED probeVars

\* Line 373: `elif self.current_status == "Disconnected"`.
notify_elif ==
    /\ ProcessAlive
    /\ npc = "elif"
    /\ npc' = IF current_status = "Disconnected" THEN "repeat" ELSE "restored"
    /\ iter' = [iter EXCEPT !.due = now - last_repeat_time >= repeat_interval]
    /\ UNCHANGED <<pre_status, last_repeat_time, polled, changes, transitions>>
    /\ UNCHANGED <<mpc, running, now>>
    /\ UNCHANGED aggVars
    /\ UNCHANGED probeVars

\* Lines 374-376: the repeat, when repeat_interval has passed.
notify_repeat ==
    /\ ProcessAlive
    /\ npc = "repeat"
    /\ IF now - last_repeat_time >= repeat_interval
       THEN /\ iter' = [Emit("Repeat", "Disconnected") EXCEPT !.due = TRUE]
            /\ last_repeat_time' = now
       ELSE /\ iter' = [iter EXCEPT !.due = FALSE]
            /\ UNCHANGED last_repeat_time
    /\ npc' = "restored"
    /\ UNCHANGED <<pre_status, polled, changes, transitions>>
    /\ UNCHANGED <<mpc, running, now>>
    /\ UNCHANGED aggVars
    /\ UNCHANGED probeVars

\* Lines 378-379: "All connections restored".
notify_restored ==
    /\ ProcessAlive
    /\ npc = "restored"
    /\ iter' = IF pre_status = "Disconnected" /\ current_status = "Connected"
               THEN Emit("Recovery", "Connected") ELSE iter
    /\ npc' = "sleep"
    /\ UNCHANGED <<pre_status, last_repeat_time, polled, changes, transitions>>
    /\ UNCHANGED <<mpc, running, now>>
    /\ UNCHANGED aggVars
    /\ UNCHANGED probeVars

\* Line 381: time.sleep(1); the poll is over.
notify_sleep ==
    /\ ProcessAlive
    /\ npc = "sleep"
    /\ npc' = "while"
    /\ iter' = NoIter
    /\ UNCHANGED <<pre_status, last_repeat_time, polled, changes, transitions>>
    /\ UNCHANGED <<mpc, running, now>>
    /\ UNCHANGED aggVars
    /\ UNCHANGED probeVars

----------------------------------------------------------------------------
(* The clock. *)

\* The only comparison of times in the program is now - last_repeat_time >=
\* repeat_interval: the clock advances a repeat interval at a time.
TickStep == repeat_interval

Tick ==
    /\ ProcessAlive
    /\ now + TickStep <= MaxTime
    /\ now' = now + TickStep
    /\ UNCHANGED <<mpc, running>>
    /\ UNCHANGED aggVars
    /\ UNCHANGED notifVars
    /\ UNCHANGED probeVars

----------------------------------------------------------------------------

Next ==
    \/ init_attrs
    \/ ping_and_store
    \/ start_monitoring
    \/ process_results
    \/ stop_monitoring
    \/ root_quit
    \/ \E name \in Targets : probe_while(name)
    \/ \E name \in Targets, reply \in Replies : probe_run(name, reply)
    \/ notify_while
    \/ notify_compare
    \/ notify_trigger
    \/ notify_set_pre
    \/ notify_elif
    \/ notify_repeat
    \/ notify_restored
    \/ notify_sleep
    \/ Tick

Spec == Init /\ [][Next]_vars

----------------------------------------------------------------------------
(* The program some time after startup: the main loop runs, every probe     *)
(* thread is between two probes, the queue is `queue`, the windows are      *)
(* `res` and were all processed.  The notification thread either died at    *)
(* startup (it read self.running or self.current_status before the main     *)
(* thread had assigned it) or is between two polls, having announced the    *)
(* present status.  A window that has not yet evicted anything starts with  *)
(* an outcome of a probe that returned: a probe thread whose first probe    *)
(* times out or faults puts nothing.                                        *)

Drawn(name, status, delay) ==
    [name |-> name, status |-> status, delay |-> delay, timestamp |-> repeat_interval]

Reachable(window) ==
    window = <<>> \/ window[1].status \in {"success", "failed"}

StatusOf(res) ==
    IF \A t \in Targets : res[t] = <<>> THEN "unset" ELSE OverallStatus(res)

MidRun(res, queue, alive) ==
    /\ mpc = "mainloop"
    /\ running = "True"
    /\ results = res
    /\ result_queue = queue
    /\ current_status = StatusOf(res)
    /\ condition = [t \in Targets |->
                        IF res[t] = <<>> THEN "unset" ELSE Condition(res[t])]
    /\ avg_delay = [t \in Targets |->
                        IF res[t] = <<>> THEN NoAvg ELSE AvgDelay(res[t])]
    /\ pre_status = IF alive THEN StatusOf(res) ELSE "None"
    /\ last_repeat_time = IF alive THEN repeat_interval ELSE 0
    /\ npc = IF alive THEN "while" ELSE "dead"
    /\ ppc = [t \in Targets |-> "while"]
    /\ bound = [t \in Targets |->
                    res[t] # <<>> \/ \E i \in DOMAIN queue : queue[i].name = t]
    /\ now = repeat_interval
    /\ attempts = [t \in Targets |-> 0]
    /\ puts = [t \in Targets |-> 0]
    /\ probe_log = [t \in Targets |-> NoLog]
    /\ pushed = res
    /\ iter = NoIter
    /\ polled = IF alive THEN StatusOf(res) ELSE "None"
    /\ changes = 0
    /\ transitions = 0

\* The notification thread alive, and windows one or two outcomes away from
\* a change of the overall status in either direction.
RunWindows ==
    LET F(t) == Drawn(t, "failed", None)
        S(t) == Drawn(t, "success", 123)
    IN  { [t \in Targets |->
              CASE t = "Internet" -> a
                [] t = "WireGuard" -> b
                [] OTHER -> <<>>] :
          a \in { <<F("Internet")>>,
                  <<F("Internet"), F("Internet"), S("Internet"), S("Internet"),
                    S("Internet")>> },
          b \in { <<>>, <<F("WireGuard")>> } }

InitRun == \E res \in RunWindows : MidRun(res, <<>>, TRUE)

NextRun ==
    \/ process_results
    \/ stop_monitoring
    \/ root_quit
    \/ \E name \in Targets : probe_while(name)
    \/ \E name \in Targets, reply \in Replies : probe_run(name, reply)
    \/ notify_while
    \/ notify_compare
    \/ notify_trigger
    \/ notify_set_pre
    \/ notify_elif
    \/ notify_repeat
    \/ notify_restored
    \/ notify_sleep
    \/ Tick

SpecRun == InitRun /\ [][NextRun]_vars

\* Every window of at most n outcomes of target t, each outcome one of kinds.
WindowsOf(kinds, n) ==
    UNION { [1..k -> kinds] : k \in 0..n }

\* The notification thread dead, one target with any reachable window of
\* failures and successes, the probe threads and the aggregator at work.
AggKinds(t) == { Drawn(t, "failed", None), Drawn(t, "success", 123) }

InitAgg ==
    \E focus \in Targets :
        \E w \in { x \in WindowsOf(AggKinds(focus), maxlen) : Reachable(x) } :
            MidRun([t \in Targets |-> IF t = focus THEN w ELSE <<>>], <<>>, FALSE)

NextAgg ==
    \/ process_results
    \/ \E name \in Targets : probe_while(name)
    \/ \E name \in Targets, reply \in Replies : probe_run(name, reply)

SpecAgg == InitAgg /\ [][NextAgg]_vars

\* The classification as a function of the window: one target with any
\* reachable window, one outcome of any kind waiting on the queue for it,
\* and process_results to handle it.  The delays are below, at and above
\* the two thresholds; the examples are the windows the spec names.
ClassifyDelays == { None, Ms(100), Ms(200), Ms(1500), Ms(1800) }

ClassifyKinds(t) ==
    { Drawn(t, "success", d) : d \in ClassifyDelays }
    \cup { Drawn(t, st, None) : st \in {"failed", "timeout", "error"} }

Examples(t) ==
    LET S(n) == Drawn(t, "success", Ms(n))
        F == Drawn(t, "failed", None)
    IN  { << <<S(50), S(60), S(70), S(80)>>, S(90) >>,
          << <<F, F, S(100), S(100)>>, S(100) >> }

ClassifyInputs(t) ==
    { << w, o >> \in WindowsOf(ClassifyKinds(t), maxlen) \X ClassifyKinds(t) :
          Reachable(w \o <<o>>) }
    \cup Examples(t)

InitClassify ==
    \E focus \in Targets :
        \E in \in ClassifyInputs(focus) :
            MidRun([t \in Targets |-> IF t = focus THEN in[1] ELSE <<>>],
                   <<in[2]>>, FALSE)

NextClassify == process_results

SpecClassify == InitClassify /\ [][NextClassify]_vars

\* process_results given an outcome whose name is no key of self.results.  No
\* probe thread puts one (ping_and_store starts the threads from the list
\* self.results is built from): the outcome is drawn as an input of the
\* consumer, alone on the queue or next to an outcome of a configured target.
Foreign == "Printer"

ForeignQueues(t) ==
    LET X == Drawn(Foreign, "success", 123)
    IN  { <<X>>, <<X, Drawn(t, "failed", None)>>, <<Drawn(t, "success", 123), X>> }

ForeignWindows(t) ==
    { <<>>, <<Drawn(t, "failed", None)>>,
      <<Drawn(t, "failed", None), Drawn(t, "success", 123)>> }

InitForeign ==
    \E focus \in Targets :
        \E w \in ForeignWindows(focus), q \in ForeignQueues(focus) :
            MidRun([t \in Targets |-> IF t = focus THEN w ELSE <<>>], q, FALSE)

NextForeign ==
    \/ process_results
    \/ \E name \in Targets : probe_while(name)
    \/ \E name \in Targets, reply \in Replies : probe_run(name, reply)

SpecForeign == InitForeign /\ [][NextForeign]_vars

\* The probe threads, the queue and the consumer while the clock advances
\* and until the tray's Exit: the windows are empty, and the Internet thread
\* either has not probed yet or has had one probe return, whose outcome
\* waits on the queue.  process_results runs every 100 ms for as long as it
\* reschedules itself (root.after, line 364): it is not postponed for ever.
ProbeQueues == { <<>>, <<Drawn("Internet", "success", 123)>> }

\* One reply of each kind that matters to the queue: a probe that returns
\* with a latency, one that returns a failure, and one that times out.
ProbeReplies ==
    { r \in Replies :
          \/ r.how = "timeout"
          \/ r.how = "exit" /\ r.rc = 1
          \/ r.how = "exit" /\ r.rc = 0 /\ parse_ping_delay(r.out) = 123 }

InitProbe ==
    \E q \in ProbeQueues : MidRun([t \in Targets |-> <<>>], q, FALSE)

NextProbe ==
    \/ process_results
    \/ stop_monitoring
    \/ root_quit
    \/ \E name \in Targets : probe_while(name)
    \/ \E name \in Targets, reply \in ProbeReplies : probe_run(name, reply)
    \/ Tick

SpecProbe == InitProbe /\ [][NextProbe]_vars /\ WF_vars(process_results)

\* The three components at work together, with no shutdown and the clock
\* standing still: the probe threads with one reply of each kind, the
\* consumer and the notification thread, from the windows of RunWindows.
InitOwn == InitRun

NextOwn ==
    \/ process_results
    \/ \E name \in Targets : probe_while(name)
    \/ \E name \in Targets, reply \in ProbeReplies : probe_run(name, reply)
    \/ notify_while
    \/ notify_compare
    \/ notify_trigger
    \/ notify_set_pre
    \/ notify_elif
    \/ notify_repeat
    \/ notify_restored
    \/ notify_sleep

SpecOwn == InitOwn /\ [][NextOwn]_vars

\* A run of outcomes of one target processed one after the other: any
\* reachable window of failures, timeouts and successes, and on the queue as
\* many outcomes of that target as it takes to evict all but one outcome of
\* a full window.
RecoverKinds(t) ==
    { Drawn(t, "failed", None), Drawn(t, "timeout", None), Drawn(t, "success", 123) }

RecoverInputs(t) ==
    { in \in WindowsOf(RecoverKinds(t), maxlen) \X [1..(maxlen - 1) -> RecoverKinds(t)] :
          Reachable(in[1] \o in[2]) }

InitRecover ==
    \E focus \in Targets :
        \E in \in RecoverInputs(focus) :
            MidRun([t \in Targets |-> IF t = focus THEN in[1] ELSE <<>>], in[2], FALSE)

NextRecover == process_results

SpecRecover == InitRecover /\ [][NextRecover]_vars

----------------------------------------------------------------------------
(* What a notification poll emitted. *)

EventsOf(type) == SelectSeq(iter.ev, LAMBDA e : e[1] = type)

\* The poll is over: every statement of the loop body has run.
PollOver == npc = "sleep"

TypeOK ==
    /\ running \in {"unset", "True", "False"}
    /\ current_status \in {"unset", "Connected", "Disconnected"}
    /\ pre_status \in {"None", "Connected", "Disconnected"}
    /\ \A t \in Targets : Len(results[t]) <= maxlen

----------------------------------------------------------------------------
(* The notification engine's claims. *)

\* C1: on every poll after the first observed status, a status that differs
\* from previousStatus gives exactly one transition event naming it and
\* becomes previousStatus; an equal status gives no transition event; and the
\* transition events number the changes between consecutive polled statuses.
C1_TransitionPerChange ==
    PollOver =>
        /\ (iter.pre # "None" /\ iter.cur # iter.pre) =>
               /\ EventsOf("Transition") = << <<"Transition", iter.cur>> >>
               /\ pre_status = iter.cur
        /\ iter.cur = iter.pre => EventsOf("Transition") = <<>>
        /\ transitions = changes

\* C5: a poll that finds the status Connected while previousStatus is
\* Disconnected emits the recovery event.
C5_RecoveryEvent ==
    (PollOver /\ iter.pre = "Disconnected" /\ iter.cur = "Connected") =>
        EventsOf("Recovery") # <<>>

\* C6: on a poll whose status equals previousStatus a repeat event is emitted
\* exactly when that status is Disconnected and repeat_interval has passed
\* since last_repeat_time; so none is emitted while the engine is Connected.
C6_RepeatRule ==
    (PollOver /\ iter.cur = iter.pre) =>
        /\ EventsOf("Repeat") # <<>> <=> (iter.cur = "Disconnected" /\ iter.due)
        /\ Len(EventsOf("Repeat")) <= 1
        /\ EventsOf("Transition") = <<>>

\* C7, as the spec states it: the poll that observes the first status emits
\* no event.
C7_SilentBaseline ==
    (PollOver /\ iter.pre = "None") => iter.ev = <<>>

\* C7, amended: the poll that observes the first status (previousStatus still
\* None) emits a transition event first, and only then sets previousStatus.
C7_FirstStatusAnnounced ==
    /\ (PollOver /\ iter.pre = "None") =>
           /\ iter.ev # <<>>
           /\ iter.ev[1][1] = "Transition"
           /\ iter.ev[1][2] \in {"Connected", "Disconnected"}
    /\ (npc = "set_pre" /\ pre_status = "None") =>
           /\ iter.ev # <<>>
           /\ iter.ev[1][1] = "Transition"

C7_Witness ==
    /\ PollOver
    /\ iter.pre = "None"
    /\ iter.ev = << <<"Transition", "Connected">> >>
    /\ pre_status = "Connected"

----------------------------------------------------------------------------
(* The aggregator's claims. *)

\* C2: once process_results has handled an outcome, the overall status is
\* Disconnected exactly when some target's classification is Disconnected:
\* 2 or more failures in its window, or Dead (mean delay above 1500 ms).
C2_OverallFollowsTargets ==
    current_status # "unset" =>
        (current_status = "Disconnected"
            <=> \E t \in Targets : condition[t] \in {"Disconnected", "Dead"})

\* The spec's failureCount, and the delays present in a window.
FailureCount(window) == Len(SelectSeq(window, LAMBDA r : r.status # "success"))

Present(window) == SelectSeq(window, LAMBDA r : r.delay # None)

RECURSIVE TotalDelay(_)
TotalDelay(window) ==
    IF window = <<>> THEN 0
    ELSE (IF Head(window).delay = None THEN 0 ELSE Head(window).delay)
         + TotalDelay(Tail(window))

\* C3: a window that holds 2 or more failed, timeout or error outcomes is
\* shown as Disconnected, never as Fast or Slow, whatever delays it holds.
C3_FailureDominance ==
    \A t \in Targets :
        (condition[t] # "unset" /\ FailureCount(results[t]) >= 2) =>
            /\ condition[t] \notin {"Fast", "Slow"}
            /\ condition[t] = "Disconnected"

\* The spec's example: [Failed, Failed, Success(100) x 3] was classified.
C3_Witness ==
    \E t \in Targets :
        /\ result_queue = <<>>
        /\ [i \in 1..Len(results[t]) |-> <<results[t][i].status, results[t][i].delay>>]
               = << <<"failed", None>>, <<"failed", None>>, <<"success", Ms(100)>>,
                    <<"success", Ms(100)>>, <<"success", Ms(100)>> >>
        /\ condition[t] = "Disconnected"

\* C4: with fewer than 2 failures, a window is Fast when the mean of its
\* present delays is below 200 ms, Slow from 200 to 1500 ms inclusive, Dead
\* above 1500 ms, and without valid data when no outcome has a delay; a
\* success without delay is neither a failure nor a delay sample.
C4_ThresholdPolicy ==
    \A t \in Targets :
        (condition[t] # "unset" /\ FailureCount(results[t]) < 2) =>
            LET n == Len(Present(results[t]))
                s == TotalDelay(results[t])
            IN  condition[t] =
                    IF n = 0 THEN "No valid data"
                    ELSE IF s < Ms(200) * n THEN "Fast"
                    ELSE IF s <= Ms(1500) * n THEN "Slow"
                    ELSE "Dead"

\* The spec's example: delays 50, 60, 70, 80, 90 are Fast with mean 70.
C4_Witness ==
    \E t \in Targets :
        /\ result_queue = <<>>
        /\ [i \in 1..Len(results[t]) |-> <<results[t][i].status, results[t][i].delay>>]
               = << <<"success", Ms(50)>>, <<"success", Ms(60)>>, <<"success", Ms(70)>>,
                    <<"success", Ms(80)>>, <<"success", Ms(90)>> >>
        /\ condition[t] = "Fast"
        /\ avg_delay[t] = <<5 * Ms(70), 5>>

\* C8: after k outcomes were appended for a target, its window holds the
\* min(5, k) most recent of them, in the order they were appended.
C8_BoundedWindow ==
    \A t \in Targets :
        LET k == Len(pushed[t])
            n == IF k < maxlen THEN k ELSE maxlen
        IN  /\ Len(results[t]) = n
            /\ \A i \in 1..n : results[t][i] = pushed[t][k - n + i]

\* Two outcomes were evicted, and the oldest one still held differs from the
\* oldest one evicted.
C8_Witness ==
    \E t \in Targets :
        /\ Len(pushed[t]) >= maxlen + 2
        /\ Len(results[t]) = maxlen
        /\ results[t][1] = pushed[t][Len(pushed[t]) - maxlen + 1]
        /\ results[t][1] # pushed[t][1]

----------------------------------------------------------------------------
(* The prober's claims. *)

\* C9: every probe attempt, the first one and those that time out or fault
\* included, puts exactly one outcome on the queue, and the loop goes on.
C9_EveryAttemptPutsOne ==
    \A t \in Targets :
        /\ ppc[t] # "dead"
        /\ ppc[t] # "run" => puts[t] = attempts[t]

Carries(out, k) == \E i \in DOMAIN out : out[i].k = k

HasLatency(out) ==
    \E i \in DOMAIN out : out[i].k = "time=" /\ i < Len(out) /\ out[i + 1].k = "num"

\* C10: a non-zero exit gives Failed, an expired timeout gives Timeout, any
\* other fault gives Error, all without delay; a zero exit gives Success, with
\* the parsed non-negative latency, or no delay when the output holds no
\* latency or carries the sub-millisecond marker.
C10_OutcomeMapping ==
    \A t \in Targets :
        LET reply == probe_log[t].reply
            sent == probe_log[t].sent
        IN  reply.how # "none" =>
                /\ Len(sent) = 1
                /\ (reply.how = "exit" /\ reply.rc # 0) =>
                       (sent[1].status = "failed" /\ sent[1].delay = None)
                /\ reply.how = "timeout" =>
                       (sent[1].status = "timeout" /\ sent[1].delay = None)
                /\ reply.how = "fault" =>
                       (sent[1].status = "error" /\ sent[1].delay = None)
                /\ (reply.how = "exit" /\ reply.rc = 0) =>
                       /\ sent[1].status = "success"
                       /\ IF HasLatency(reply.out) /\ ~Carries(reply.out, "time<1ms")
                          THEN sent[1].delay >= 0
                          ELSE sent[1].delay = None

C12_Shutdown ==
    [][ running = "False" =>
            /\ \A t \in Targets :
                   /\ (ppc[t] = "run" /\ ppc'[t] # "run") =>
                          (puts'[t] = puts[t] + 1 /\ ppc'[t] = "while")
                   /\ (ppc[t] = "while" /\ ppc'[t] # "while") => ppc'[t] = "done"
                   /\ ppc[t] = "done" => ppc'[t] = "done"
                   /\ ppc[t] # "run" => attempts'[t] = attempts[t]
            /\ (npc = "while" /\ npc' # "while") => npc' = "done"
            /\ npc = "done" => npc' = "done"
            /\ mpc' = "mainloop" => results' = results
            /\ mpc = "done" => (mpc' \in {"done", "exited"} /\ results' = results)
      ]_vars

----------------------------------------------------------------------------
(* The claims about the probe threads and the queue together. *)

NonDecreasing(outcomes) ==
    \A i, j \in DOMAIN outcomes :
        i < j => outcomes[i].timestamp <= outcomes[j].timestamp

\* C13: whatever the interleaving of the probe threads, the outcomes appended
\* for one target, and so those in its window, carry timestamps that never
\* decrease from the oldest to the newest.
C13_PerTargetOrder ==
    \A t \in Targets : NonDecreasing(pushed[t]) /\ NonDecreasing(results[t])

\* A window holds two outcomes of its target taken at different times, after
\* an outcome of another target was appended in between or around them.
C13_Witness ==
    \E t, u \in Targets :
        /\ t # u
        /\ Len(results[t]) >= 2
        /\ results[t][1].timestamp < results[t][2].timestamp
        /\ pushed[u] # <<>>

InQueue(t) == Len(SelectSeq(result_queue, LAMBDA o : o.name = t))

Processed == Len(pushed["Internet"]) + Len(pushed["WireGuard"]) + Len(pushed["VoIP"])

\* A put appends the outcome to the queue whatever the queue holds; the only
\* step that removes an outcome is process_results, which appends the oldest
\* one to its target's window; so per target the outcomes put are those
\* appended plus those waiting, each once.
Conserved ==
    /\ \A t \in Targets :
           /\ puts'[t] - puts[t] =
                  (Len(pushed'[t]) + InQueue(t)') - (Len(pushed[t]) + InQueue(t))
           /\ puts'[t] # puts[t] =>
                  /\ Len(result_queue') = Len(result_queue) + 1
                  /\ SubSeq(result_queue', 1, Len(result_queue)) = result_queue
                  /\ result_queue'[Len(result_queue')] = probe_log'[t].sent[1]
    /\ Len(result_queue') < Len(result_queue) =>
           LET o == Head(result_queue)
           IN  /\ result_queue' = Tail(result_queue)
               /\ pushed' = [pushed EXCEPT ![o.name] = Append(@, o)]
               /\ results'[o.name][Len(results'[o.name])] = o

NeverDropped == [][Conserved]_vars

\* While the monitor is running, the outcome at the head of the queue is
\* eventually processed.
EventuallyTaken ==
    \A n \in 0..(MaxProbes + 1) :
        (result_queue # <<>> /\ Processed = n)
            ~> (Processed > n \/ running # "True")

\* C14: no outcome is lost.  No step drops, overwrites or duplicates an
\* outcome that was put, a put never discards one, and while the monitor is
\* running every outcome put is eventually appended to its target's window.
C14_NoOutcomeLost == NeverDropped /\ EventuallyTaken

\* Two outcomes of one target were put while the first still waited on the
\* queue, and both are now in its window.
C14_Witness ==
    \E t \in Targets :
        /\ puts[t] = 2
        /\ result_queue = <<>>
        /\ Len(results[t]) >= 2
        /\ running = "True"

\* C15: a target's probe loop can take its next step whatever the other
\* loops are doing (in flight until their timeout, between probes, ended or
\* dead): starting a probe needs only its own position and the running flag,
\* completing one needs only its own position.  (MaxProbes and MaxQueue are
\* the limits of the model, not waits of the program.)
C15_TargetIndependence ==
    ProcessAlive =>
        \A t \in Targets :
            /\ (ppc[t] = "while" /\ (running = "True" => Total(attempts) < MaxProbes))
                   => ENABLED probe_while(t)
            /\ (ppc[t] = "run" /\ Len(result_queue) < MaxQueue)
                   => \A reply \in ProbeReplies : ENABLED probe_run(t, reply)

\* One target's first probe timed out and its loop is dead; another target's
\* loop is about to start a probe, and can.
C15_Witness ==
    \E t, u \in Targets :
        /\ t # u
        /\ ppc[u] = "dead"
        /\ probe_log[u].reply.how = "timeout"
        /\ ppc[t] = "while"
        /\ running = "True"
        /\ ENABLED probe_while(t)

----------------------------------------------------------------------------
(* More claims about the aggregator. *)

\* C16: once process_results has processed the waiting outcome, the avg_delay
\* it reports for the window is the mean of the delays present in it (sum
\* over count), and is absent exactly when no outcome of the window has a
\* delay, also when the window holds 2 or more failures.
C16_MeanOfPresentDelays ==
    \A t \in Targets :
        (result_queue = <<>> /\ Len(pushed[t]) > 0) =>
            LET n == Len(Present(results[t]))
            IN  avg_delay[t] = IF n = 0 THEN NoAvg ELSE <<TotalDelay(results[t]), n>>

----------------------------------------------------------------------------
(* Who writes what. *)

\* C17: a step of a probe loop changes, of the shared state, only the result
\* queue, by appending one outcome; a step of the notification loop changes
\* only pre_status and last_repeat_time; and the windows and the overall
\* status change only in a step of process_results, that takes an outcome
\* from the queue.
C17_SingleOwner ==
    [][ /\ ppc' # ppc =>
              /\ UNCHANGED <<results, current_status, condition, avg_delay>>
              /\ UNCHANGED <<pre_status, last_repeat_time, running>>
              /\ \/ result_queue' = result_queue
                 \/ /\ Len(result_queue') = Len(result_queue) + 1
                    /\ SubSeq(result_queue', 1, Len(result_queue)) = result_queue
        /\ npc' # npc =>
              /\ UNCHANGED <<results, current_status, condition, avg_delay>>
              /\ UNCHANGED <<result_queue, running>>
        /\ (results' # results \/ current_status' # current_status) =>
              /\ mpc = "mainloop"
              /\ Len(result_queue') < Len(result_queue)
              /\ UNCHANGED <<ppc, npc, pre_status, last_repeat_time>>
      ]_vars

\* A probe loop has put an outcome, process_results has processed it and
\* changed the overall status, and the notification loop has announced the
\* change and stored it.
C17_Witness ==
    /\ \E t \in Targets : puts[t] >= 1
    /\ result_queue = <<>>
    /\ transitions >= 1
    /\ npc = "sleep"
    /\ pre_status = current_status

----------------------------------------------------------------------------
(* The notification thread and the main thread. *)

\* C18: the notification thread never finds self.running or
\* self.current_status missing: it is not dead in any state, from __init__
\* to the shutdown.
C18_LoopStaysAlive == npc # "dead"

\* C19: in a poll that emits a transition event, the status the poll
\* compared with previousStatus, the status the event names and the status
\* stored as previousStatus are one value.
C19_OneStatusPerPoll ==
    (PollOver /\ EventsOf("Transition") # <<>>) =>
        LET announced == EventsOf("Transition")[1][2]
        IN  /\ announced = iter.cur
            /\ pre_status = iter.cur
            /\ pre_status = announced

\* C20: once process_results has processed an outcome, the overall status is
\* Disconnected exactly when the window of some target, the one just
\* updated or any other, holds 2 or more failed, timeout or error outcomes.
C20_OverallStatusRule ==
    current_status # "unset" =>
        (current_status = "Disconnected"
            <=> \E t \in Targets : FailureCount(results[t]) >= 2)

\* The outcome processed last was for a target with fewer than 2 failures,
\* while another target's window holds 2 or more: the status is Disconnected.
C20_Witness ==
    \E t, u \in Targets :
        /\ t # u
        /\ FailureCount(results[t]) >= 2
        /\ results[u] # <<>>
        /\ FailureCount(results[u]) < 2
        /\ results[u][Len(results[u])].timestamp = now
        /\ puts[u] >= 1
        /\ puts[t] = 0
        /\ result_queue = <<>>
        /\ current_status = "Disconnected"

----------------------------------------------------------------------------
(* How fast a window follows its target. *)

\* The n outcomes appended last for a target all have / all lack the status
\* success.
LastSucceeded(t, n) ==
    /\ Len(pushed[t]) >= n
    /\ \A i \in (Len(pushed[t]) - n + 1)..Len(pushed[t]) : pushed[t][i].status = "success"

LastFailed(t, n) ==
    /\ Len(pushed[t]) >= n
    /\ \A i \in (Len(pushed[t]) - n + 1)..Len(pushed[t]) : pushed[t][i].status # "success"

\* C21: whatever the window held before, when the 4 outcomes appended last
\* for a target are successes its window holds at most 1 failure and it is
\* not shown as Disconnected; when the 2 appended last are not successes its
\* window holds at least 2 failures and it is shown as Disconnected.
C21_RecoveryBound ==
    \A t \in Targets :
        /\ LastSucceeded(t, 4) =>
               (FailureCount(results[t]) <= 1 /\ condition[t] # "Disconnected")
        /\ LastFailed(t, 2) =>
               (FailureCount(results[t]) >= 2 /\ condition[t] = "Disconnected")

\* A full window of failures, then 4 successes processed: one failure is
\* left and the target is no longer Disconnected.
C21_Witness ==
    \E t \in Targets :
        /\ Len(pushed[t]) = maxlen + 4
        /\ \A i \in 1..maxlen : pushed[t][i].status # "success"
        /\ LastSucceeded(t, 4)
        /\ result_queue = <<>>
        /\ FailureCount(results[t]) = 1
        /\ condition[t] = "Fast"

====
